---- MODULE Spec2Model ----
(***************************************************************************)
(* Model of the notebook alpha_beta_v0_fun.ipynb: the kernel's global      *)
(* names are the state, every code cell is one action, and the functions   *)
(* Q4_min, min_fun, Q4_min_v, min_fun_v and f are operators.               *)
(*                                                                         *)
(* Numbers.  A Python/NumPy float is modelled as an extended rational      *)
(* [num, den]: den > 0 is the exact rational num/den in lowest terms,      *)
(* den = 0 is one of the IEEE specials (num = 1: +inf, num = -1: -inf,     *)
(* num = 0: NaN).  Arithmetic on the specials follows IEEE-754 as NumPy    *)
(* applies it (x/0 = +-inf, 0/0 = inf-inf = NaN, comparisons with NaN are  *)
(* false).  Rounding of finite results is not modelled.                    *)
(***************************************************************************)
EXTENDS Integers, Sequences, FiniteSets, TLC

VARIABLES
    defined,     \* the global names bound in the kernel
    data,        \* the table: a sequence of rows [v |-> velocity, h |-> height]
    v0,          \* <<>> is the unset marker [], <<x>> is the number x
    vel, alt,    \* retained velocities / heights (Section 1.1)
    Vvalues, Yvalues, h0,
    alpha_1, beta_1,                    \* Section 1.2
    vel1, alt1, vel_smooth, alt_smooth, \* Section 2.1
    alpha_2, beta_2, v0_calc, Vvalues_2, \* Section 2.2
    fitres,      \* Section 3.1: what the last call of f showed and returned
    widget,      \* out.widget.result: <<>> or <<alpha, beta, V0>>
    alpha_fit, beta_fit, v0_fit, Vvalues_fit,   \* the cell after Section 3.1
    fdef,        \* the section whose cell defined the global f last
    mass,        \* the final masses the last call of a mass f showed
    call,        \* the locals of the last estimator call (x0, bnds, res)
    cell,        \* the cell executed last
    err,         \* the exception that cell ended with, or "none"
    execution_count   \* the kernel's count of executed cells

vars == <<defined, data, v0, vel, alt, Vvalues, Yvalues, h0, alpha_1, beta_1,
          vel1, alt1, vel_smooth, alt_smooth, alpha_2, beta_2, v0_calc, Vvalues_2,
          fitres, widget, alpha_fit, beta_fit, v0_fit, Vvalues_fit, fdef, mass,
          call, cell, err, execution_count>>

(***************************************************************************)
(* Extended rationals                                                      *)
(***************************************************************************)
Abs(n) == IF n < 0 THEN -n ELSE n

Sgn(n) == IF n > 0 THEN 1 ELSE IF n < 0 THEN -1 ELSE 0

RECURSIVE GCD(_, _)
GCD(a, b) == IF b = 0 THEN a ELSE GCD(b, a % b)

NaN == [num |-> 0, den |-> 0]

PInf == [num |-> 1, den |-> 0]

NInf == [num |-> -1, den |-> 0]

\* n/d as a value; a zero denominator gives the IEEE result of the division
Q(n, d) ==
    IF d = 0 THEN [num |-> Sgn(n), den |-> 0]
    ELSE LET s == IF d < 0 THEN -1 ELSE 1
             g == GCD(Abs(n), Abs(d))
         IN  [num |-> (s * n) \div g, den |-> (s * d) \div g]

I(n) == [num |-> n, den |-> 1]

IsNaN(a) == a.den = 0 /\ a.num = 0

IsInf(a) == a.den = 0 /\ a.num # 0

IsFinite(a) == a.den > 0

Neg(a) == [num |-> -a.num, den |-> a.den]

Add(a, b) ==
    IF IsNaN(a) \/ IsNaN(b) THEN NaN
    ELSE IF IsInf(a) /\ IsInf(b) THEN (IF a.num = b.num THEN a ELSE NaN)
    ELSE IF IsInf(a) THEN a
    ELSE IF IsInf(b) THEN b
    ELSE Q(a.num * b.den + b.num * a.den, a.den * b.den)

Sub(a, b) == Add(a, Neg(b))

Mul(a, b) ==
    IF IsNaN(a) \/ IsNaN(b) THEN NaN
    ELSE IF IsInf(a) \/ IsInf(b)
         THEN [num |-> Sgn(a.num) * Sgn(b.num), den |-> 0]
    ELSE Q(a.num * b.num, a.den * b.den)

\* NumPy true division: x/0 is +-inf, 0/0 and inf/inf are NaN, x/inf is 0
Div(a, b) ==
    IF IsNaN(a) \/ IsNaN(b) THEN NaN
    ELSE IF IsInf(a) /\ IsInf(b) THEN NaN
    ELSE IF IsInf(a) THEN [num |-> a.num * (IF b.num < 0 THEN -1 ELSE 1), den |-> 0]
    ELSE IF IsInf(b) THEN I(0)
    ELSE Q(a.num * b.den, a.den * b.num)

\* a < b, false when either side is NaN
Lt(a, b) ==
    /\ ~IsNaN(a)
    /\ ~IsNaN(b)
    /\ IF IsInf(a) /\ IsInf(b) THEN a.num < b.num
       ELSE IF IsInf(a) THEN a.num < 0
       ELSE IF IsInf(b) THEN b.num > 0
       ELSE a.num * b.den < b.num * a.den

Gt(a, b) == Lt(b, a)

Le(a, b) == ~IsNaN(a) /\ ~IsNaN(b) /\ ~Lt(b, a)

\* elementwise array / scalar
DivAll(s, c) == [i \in 1..Len(s) |-> Div(s[i], c)]

RECURSIVE SumSeq(_)
SumSeq(s) == IF s = <<>> THEN I(0) ELSE Add(Head(s), SumSeq(Tail(s)))

\* np.nanmean: the mean of the entries that are not NaN; NaN (and only a
\* warning) when there is none
NanMean(s) ==
    LET keep == SelectSeq(s, LAMBDA x : ~IsNaN(x))
    IN  IF keep = <<>> THEN NaN ELSE Div(SumSeq(keep), I(Len(keep)))

\* s[0:n]
Slice0(s, n) == SubSeq(s, 1, IF Len(s) < n THEN Len(s) ELSE n)

Last(s) == s[Len(s)]

\* Reverse that leaves the order as it is
Reverse_None(s) == s

Reverse(s) == [i \in 1..Len(s) |-> s[Len(s) + 1 - i]]

(***************************************************************************)
(* Program constants                                                       *)
(***************************************************************************)
MeanWindow == 10

KmLimit == 1000

H0Metres == 7160

H0Km == Q(7160, 1000)

VelCut == I(1)

MaxRuns == 9

\* every executed cell advances the kernel's execution count
Ran == execution_count < MaxRuns /\ execution_count' = execution_count + 1

\* `if v0 == []` (the test both guards use)
\* V0IsUnset that takes every v0 for the unset marker
V0IsUnset_Always(w) == TRUE

V0IsUnset(w) == w = <<>>

(***************************************************************************)
(* Upload data                                                             *)
(***************************************************************************)
Row(v, h) == [v |-> v, h |-> h]

\* the places of t, among S, whose height no other place of S is below
Lowest(t, S) == {i \in S : \A j \in S : ~Lt(t[j].h, t[i].h)}

\* the orders in which the places S of t can come out of the sort
RECURSIVE Orders(_, _)
Orders(t, S) ==
    IF S = {} THEN {<<>>}
    ELSE UNION { { <<i>> \o r : r \in Orders(t, S \ {i}) } : i \in Lowest(t, S) }

\* data.sort([h_col]): the rows in ascending height; rows of equal height in
\* any order (the sort is not stable)
SortedByHeight(t) ==
    { [k \in 1..Len(t) |-> t[p[k]]] : p \in Orders(t, 1..Len(t)) }

\* f1 = ...; data = Table.read(f1, ...); slope = 50 deg
ReadData(tables) ==
    /\ \E t \in tables : data' = t
    /\ defined' = defined \cup {"data", "slope"}
    /\ cell' = "read" /\ Ran
    /\ UNCHANGED <<Vvalues_2, widget, alpha_fit, beta_fit, v0_fit, Vvalues_fit, fdef, mass>>
    /\ err' = "none"
    /\ UNCHANGED <<v0, vel, alt, Vvalues, Yvalues, h0, alpha_1, beta_1,
                   vel1, alt1, vel_smooth, alt_smooth, alpha_2, beta_2, v0_calc, fitres, call>>

\* v0 = []
ResetV0 ==
    /\ v0' = <<>>
    /\ defined' = defined \cup {"v0"}
    /\ cell' = "v0" /\ Ran
    /\ UNCHANGED <<Vvalues_2, widget, alpha_fit, beta_fit, v0_fit, Vvalues_fit, fdef, mass>>
    /\ err' = "none"
    /\ UNCHANGED <<data, vel, alt, Vvalues, Yvalues, h0, alpha_1, beta_1,
                   vel1, alt1, vel_smooth, alt_smooth, alpha_2, beta_2, v0_calc, fitres, call>>

\* the same cell with the reference velocity given: v0 = <number>
SupplyV0(choices) ==
    /\ \E x \in choices : v0' = <<x>>
    /\ defined' = defined \cup {"v0"}
    /\ cell' = "v0" /\ Ran
    /\ UNCHANGED <<Vvalues_2, widget, alpha_fit, beta_fit, v0_fit, Vvalues_fit, fdef, mass>>
    /\ err' = "none"
    /\ UNCHANGED <<data, vel, alt, Vvalues, Yvalues, h0, alpha_1, beta_1,
                   vel1, alt1, vel_smooth, alt_smooth, alpha_2, beta_2, v0_calc, fitres, call>>

\* vel_col = ...; h_col = ...; data.sort([h_col]); data = data[::-1]
SortData ==
    /\ cell' = "sort" /\ Ran
    /\ UNCHANGED <<Vvalues_2, widget, alpha_fit, beta_fit, v0_fit, Vvalues_fit, fdef, mass>>
    /\ defined' = defined \cup {"vel_col", "h_col"}
    /\ IF "data" \notin defined
       THEN err' = "NameError" /\ data' = data
       ELSE err' = "none" /\ \E t \in SortedByHeight(data) : data' = Reverse(t)
    /\ UNCHANGED <<v0, vel, alt, Vvalues, Yvalues, h0, alpha_1, beta_1,
                   vel1, alt1, vel_smooth, alt_smooth, alpha_2, beta_2, v0_calc, fitres, call>>

(***************************************************************************)
(* Section 1.1 - normalising data                                          *)
(***************************************************************************)
\* the filter loop: rows with data[vel_col][v] > 1.
Retained(t) == SelectSeq(t, LAMBDA r : Gt(r.v, VelCut))

Column_v(t) == [i \in 1..Len(t) |-> t[i].v]

Column_h(t) == [i \in 1..Len(t) |-> t[i].h]

\* AutoV0 with the slice [0:10] forgotten
AutoV0_WholeColumn(velocities) == NanMean(velocities)

\* np.nanmean(vel[0:10])
AutoV0(velocities) == NanMean(Slice0(velocities, MeanWindow))

\* ScaleHeight with <= for <
ScaleHeight_Inclusive(first) == IF Le(first, I(KmLimit)) THEN H0Km ELSE I(H0Metres)

\* if alt[0] < 1000: h0 = 7.160 else: h0 = 7160.
ScaleHeight(first) == IF Lt(first, I(KmLimit)) THEN H0Km ELSE I(H0Metres)

Normalise ==
    LET vel_n == Column_v(Retained(data))
        alt_n == Column_h(Retained(data))
        v0_n  == IF V0IsUnset(v0) THEN <<AutoV0(vel_n)>> ELSE v0
        h0_n  == ScaleHeight(alt_n[1])
    IN  /\ cell' = "normalise" /\ Ran
        /\ UNCHANGED <<Vvalues_2, widget, alpha_fit, beta_fit, v0_fit, Vvalues_fit, fdef, mass>>
        /\ defined' = defined \cup
              (IF {"data", "vel_col", "h_col"} \subseteq defined
               THEN (IF "v0" \in defined
                     THEN (IF alt_n # <<>>
                           THEN {"alt", "vel", "Vvalues", "h0", "Yvalues"}
                           ELSE {"alt", "vel", "Vvalues"})
                     ELSE {"alt", "vel"})
               ELSE {"alt", "vel"})
        /\ IF ~({"data", "vel_col", "h_col"} \subseteq defined)
           THEN /\ err' = "NameError"
                /\ vel' = <<>> /\ alt' = <<>>
                /\ UNCHANGED <<v0, Vvalues, h0, Yvalues>>
           ELSE IF "v0" \notin defined
           THEN /\ err' = "NameError"
                /\ vel' = vel_n /\ alt' = alt_n
                /\ UNCHANGED <<v0, Vvalues, h0, Yvalues>>
           ELSE IF alt_n = <<>>
           THEN /\ err' = "IndexError"
                /\ vel' = vel_n /\ alt' = alt_n
                /\ v0' = v0_n
                /\ Vvalues' = DivAll(vel_n, v0_n[1])
                /\ UNCHANGED <<h0, Yvalues>>
           ELSE /\ err' = "none"
                /\ vel' = vel_n /\ alt' = alt_n
                /\ v0' = v0_n
                /\ Vvalues' = DivAll(vel_n, v0_n[1])
                /\ h0' = h0_n
                /\ Yvalues' = DivAll(alt_n, h0_n)
        /\ UNCHANGED <<data, alpha_1, beta_1, vel1, alt1, vel_smooth, alt_smooth,
                       alpha_2, beta_2, v0_calc, fitres, call>>

(***************************************************************************)
(* Section 2.1 - smoothing data                                            *)
(***************************************************************************)
Three == I(3)

\* for v in range(1, len(s)-1): out.append((s[v-1]+s[v]+s[v+1]) / 3)
Boxcar(s) ==
    [i \in 1..(Len(s) - 2) |-> Div(Add(Add(s[i], s[i + 1]), s[i + 2]), Three)]

\* Middle with the height of the window's first sample
Middle_Unshifted(a) == [i \in 1..(Len(a) - 2) |-> a[i]]

\* for v in range(1, len(s)-1): out.append(a[v])
Middle(a) == [i \in 1..(Len(a) - 2) |-> a[i + 1]]

Smooth ==
    /\ cell' = "smooth" /\ Ran
    /\ UNCHANGED <<Vvalues_2, widget, alpha_fit, beta_fit, v0_fit, Vvalues_fit, fdef, mass>>
    /\ defined' = defined \cup {"alt1", "vel1"} \cup
          (IF {"vel", "alt"} \subseteq defined
           THEN {"alt_smooth", "vel_smooth"} ELSE {})
    /\ IF ~({"vel", "alt"} \subseteq defined)
       THEN /\ err' = "NameError"
            /\ vel1' = <<>> /\ alt1' = <<>>
            /\ UNCHANGED <<vel_smooth, alt_smooth, v0>>
       ELSE /\ vel1' = Boxcar(vel)
            /\ alt1' = Middle(alt)
            /\ vel_smooth' = Boxcar(vel1')
            /\ alt_smooth' = Middle(alt1')
            /\ IF "v0" \notin defined
               THEN err' = "NameError" /\ v0' = v0
               ELSE /\ err' = "none"
                    /\ v0' = IF V0IsUnset(v0) THEN <<AutoV0(vel)>> ELSE v0
    /\ UNCHANGED <<data, vel, alt, Vvalues, Yvalues, h0, alpha_1, beta_1,
                   alpha_2, beta_2, v0_calc, fitres, call>>

(***************************************************************************)
(* Function definitions: min_fun, min_fun_v                                *)
(*                                                                         *)
(* exp and scipy.special.expi cannot be computed here.  A per-point term   *)
(* is evaluated to its IEEE class ("nan", "pinf", "ninf" or "fin"), the    *)
(* class of every intermediate following the expression of the source,     *)
(* and a finite term keeps the arguments it was computed from as its       *)
(* value.  The parameters x[0], x[1] are finite and positive wherever the  *)
(* model evaluates a term.                                                 *)
(***************************************************************************)
\* class of np.exp(-y)
ClsExpNeg(y) ==
    IF IsNaN(y) THEN "nan"
    ELSE IF IsInf(y) THEN (IF y.num < 0 THEN "pinf" ELSE "fin")
    ELSE "fin"

\* class of x[1]*vval**2 for a finite x[1] > 0
ClsArg(vval) ==
    IF IsNaN(vval) THEN "nan"
    ELSE IF IsInf(vval) THEN "pinf"
    ELSE IF vval.num = 0 THEN "zero"
    ELSE "fin"

\* class of scipy.special.expi(u) for u >= 0: expi(0) = -inf, expi(inf) = inf
ClsExpi(u) ==
    IF u = "zero" THEN "ninf" ELSE u

\* class of c1 - c2
ClsSub(c1, c2) ==
    IF c1 = "nan" \/ c2 = "nan" THEN "nan"
    ELSE IF c1 = "fin" THEN (IF c2 = "pinf" THEN "ninf"
                             ELSE IF c2 = "ninf" THEN "pinf" ELSE "fin")
    ELSE IF c1 = c2 THEN "nan"
    ELSE c1

\* class of pow(c, 2)
ClsSquare(c) == IF c \in {"pinf", "ninf"} THEN "pinf" ELSE c

\* pow(2*x[0]*np.exp(-y) - (expi(x[1]) - expi(x[1]*vval**2))*np.exp(-x[1]), 2)
Term(a, b, vval, y) ==
    LET c == ClsSquare(ClsSub(ClsExpNeg(y),
                              ClsSub(ClsExpi("fin"), ClsExpi(ClsArg(vval)))))
    IN  [cls |-> c,
         val |-> IF c = "fin" THEN <<a, b, vval, y>> ELSE <<>>]

\* NanSum as np.sum: a NaN entry makes the sum NaN
NanSum_PlainSum(res) ==
    IF \E i \in 1..Len(res) : res[i].cls = "nan"
    THEN [cls |-> "nan", sum |-> <<>>]
    ELSE IF \E i \in 1..Len(res) : res[i].cls = "pinf"
    THEN [cls |-> "pinf", sum |-> <<>>]
    ELSE [cls |-> "fin", sum |-> [i \in 1..Len(res) |-> res[i].val]]

\* np.nansum(res): NaN entries count as zero; everything else is added
NanSum(res) ==
    LET keep == SelectSeq(res, LAMBDA t : t.cls # "nan")
    IN  IF \E i \in 1..Len(keep) : keep[i].cls = "pinf"
        THEN [cls |-> "pinf", sum |-> <<>>]
        ELSE [cls |-> "fin", sum |-> [i \in 1..Len(keep) |-> keep[i].val]]

\* the list res that min_fun builds
ResList(x, vvals, yvals) ==
    [i \in 1..Len(vvals) |-> Term(x[1], x[2], vvals[i], yvals[i])]

min_fun(x, vvals, yvals) == NanSum(ResList(x, vvals, yvals))

Thousand == I(1000)

\* Rescaled with the factor 1000 forgotten
Rescaled_NoThousand(velocities, x3) ==
    [i \in 1..Len(velocities) |-> Div(velocities[i], x3)]

\* vval = velocities[i] / (x[2]*1000.)
Rescaled(velocities, x3) ==
    [i \in 1..Len(velocities) |-> Div(velocities[i], Mul(x3, Thousand))]

\* the list res that min_fun_v builds
ResList_v(x, velocities, yvals) ==
    ResList(x, Rescaled(velocities, x[3]), yvals)

min_fun_v(x, velocities, yvals) == NanSum(ResList_v(x, velocities, yvals))

(***************************************************************************)
(* Function definitions: Q4_min, Q4_min_v                                  *)
(***************************************************************************)
AlphaMin == Q(1, 100)

\* xmax[0] ten times too wide
AlphaMax_Wide == I(10000)

AlphaMax == I(1000)

BetaMin == Q(1, 10000)

BetaMax == I(20)

B0 == I(1)

B0_v == Q(1, 100)

V0Low == Q(95, 100)

V0High == Q(105, 100)

\* the natural logarithm of the four products 2*b0*xmin[0], 2*b0*xmax[0],
\* cut to four decimals.  No quotient of an integer height by 7160 or 7.160
\* lies between a logarithm and its cut, so the comparisons below are exact
\* for the integer heights of the model.
LnOf(c) ==
    CASE c = Q(2000, 1)  -> Q(76009, 10000)
      [] c = Q(20, 1)    -> Q(29957, 10000)
      [] c = Q(2, 100)   -> Q(-39120, 10000)
      [] c = Q(2, 10000) -> Q(-85172, 10000)

\* a0 = np.exp(y)/(2. * b0), kept as the pair it is computed from
A0(y, b0) == [exparg |-> y, over |-> Mul(I(2), b0)]

\* a0 < c and a0 > c for a bound c
A0Below(a0, c) == Lt(a0.exparg, LnOf(Mul(c, a0.over)))

A0Above(a0, c) == Gt(a0.exparg, LnOf(Mul(c, a0.over)))

\* the projection onto [lo, hi] that L-BFGS-B applies to every iterate
Clip(c, lo, hi) == IF Lt(c, lo) THEN lo ELSE IF Gt(c, hi) THEN hi ELSE c

\* scipy.optimize.minimize(fun, x0, bounds=bnds): ValueError when a lower
\* bound exceeds its upper bound; otherwise x0 is projected into the box
\* without notice and the result is the projection of some iterate
MinimizeRaises(lb, ub) == \E i \in 1..Len(lb) : Gt(lb[i], ub[i])

MinimizeX(iterate, lb, ub) ==
    [i \in 1..Len(lb) |-> Clip(iterate[i], lb[i], ub[i])]

\* res.success of the OptimizeResult: the outcome of the minimizer carries
\* it after the coordinates of the iterate
MinimizeSuccess(iterate) == iterate[Len(iterate)]

NoCall == [fn |-> "none", raised |-> "none", a0 |-> A0(NaN, B0), x0 |-> <<>>,
           lb |-> <<>>, ub |-> <<>>, x |-> <<>>, fun |-> NanSum(<<>>),
           success |-> FALSE, out |-> <<>>, vvals |-> <<>>, yvals |-> <<>>]

\* Q4_min(vvals, yvals): the locals when it returns or raises.  a0 reads the
\* global Yvalues, not the argument yvals.
Q4_min(vvals, yvals, iterate) ==
    LET a0 == A0(Last(Yvalues), B0)
        lb == <<AlphaMin, BetaMin>>
        ub == <<AlphaMax, BetaMax>>
        x  == MinimizeX(iterate, lb, ub)
    IN  IF "Yvalues" \notin defined
        THEN [NoCall EXCEPT !.fn = "Q4_min", !.raised = "NameError"]
        ELSE IF Yvalues = <<>>
        THEN [NoCall EXCEPT !.fn = "Q4_min", !.raised = "IndexError"]
        ELSE IF MinimizeRaises(lb, ub)
        THEN [NoCall EXCEPT !.fn = "Q4_min", !.raised = "ValueError", !.a0 = a0,
                            !.x0 = <<B0>>, !.lb = lb, !.ub = ub]
        ELSE [fn |-> "Q4_min", raised |-> "none", a0 |-> a0, x0 |-> <<B0>>,
              lb |-> lb, ub |-> ub, x |-> x, fun |-> min_fun(x, vvals, yvals),
              success |-> MinimizeSuccess(iterate), out |-> x, vvals |-> vvals, yvals |-> yvals]

\* Q4_min_v(velocities, heights, h0, V0); V0 is <<>> when the list [] is
\* passed.  out[2] *= 1000. before the return
Q4_min_v(velocities, heights, h0_, V0, iterate) ==
    LET Yvalues_ == DivAll(heights, h0_)
        a0 == A0(Last(Yvalues_), B0_v)
        g  == Div(V0[1], Thousand)
        lb == <<AlphaMin, BetaMin, Div(Mul(V0[1], V0Low), Thousand)>>
        ub == <<AlphaMax, BetaMax, Div(Mul(V0[1], V0High), Thousand)>>
        x  == MinimizeX(<<iterate[1], iterate[2], Mul(iterate[3], g)>>, lb, ub)
    IN  IF Yvalues_ = <<>>
        THEN [NoCall EXCEPT !.fn = "Q4_min_v", !.raised = "IndexError"]
        ELSE IF V0 = <<>>
        THEN [NoCall EXCEPT !.fn = "Q4_min_v", !.raised = "TypeError", !.a0 = a0]
        ELSE IF MinimizeRaises(lb, ub)
        THEN [NoCall EXCEPT !.fn = "Q4_min_v", !.raised = "ValueError", !.a0 = a0,
                            !.x0 = <<B0_v, g>>, !.lb = lb, !.ub = ub]
        ELSE [fn |-> "Q4_min_v", raised |-> "none", a0 |-> a0, x0 |-> <<B0_v, g>>,
              lb |-> lb, ub |-> ub, x |-> x,
              fun |-> min_fun_v(x, velocities, Yvalues_),
              success |-> MinimizeSuccess(iterate),
              out |-> <<x[1], x[2], Mul(x[3], Thousand)>>,
              vvals |-> velocities, yvals |-> Yvalues_]

(***************************************************************************)
(* Section 1.2, Section 2.2, Section 3.1                                   *)
(***************************************************************************)
\* Gparams = Q4_min(Vvalues, Yvalues); alpha_1 = Gparams[0]; beta_1 = Gparams[1]
Fit1(iterates) ==
    /\ cell' = "fit1" /\ Ran
    /\ UNCHANGED <<Vvalues_2, widget, alpha_fit, beta_fit, v0_fit, Vvalues_fit, fdef, mass>>
    /\ IF ~({"Vvalues", "Yvalues"} \subseteq defined)
       THEN /\ err' = "NameError"
            /\ UNCHANGED <<defined, alpha_1, beta_1, call>>
       ELSE \E it \in iterates :
              LET r == Q4_min(Vvalues, Yvalues, it)
              IN  /\ call' = r
                  /\ err' = r.raised
                  /\ IF r.raised = "none"
                     THEN /\ alpha_1' = r.out[1]
                          /\ beta_1' = r.out[2]
                          /\ defined' = defined \cup {"Gparams", "alpha_1", "beta_1"}
                     ELSE UNCHANGED <<defined, alpha_1, beta_1>>
    /\ UNCHANGED <<data, v0, vel, alt, Vvalues, Yvalues, h0, vel1, alt1, vel_smooth,
                   alt_smooth, alpha_2, beta_2, v0_calc, fitres>>

\* Gparams = Q4_min_v(vel_smooth, alt_smooth, h0, v0); alpha_2, beta_2,
\* v0_calc = Gparams[0..2]
Fit2(iterates) ==
    /\ cell' = "fit2" /\ Ran
    /\ UNCHANGED <<widget, alpha_fit, beta_fit, v0_fit, Vvalues_fit, fdef, mass>>
    /\ IF ~({"vel_smooth", "alt_smooth", "h0", "v0"} \subseteq defined)
       THEN /\ err' = "NameError"
            /\ UNCHANGED <<defined, alpha_2, beta_2, v0_calc, Vvalues_2, call>>
       ELSE \E it \in iterates :
              LET r == Q4_min_v(vel_smooth, alt_smooth, h0, v0, it)
              IN  /\ call' = r
                  /\ err' = r.raised
                  /\ IF r.raised = "none"
                     THEN /\ alpha_2' = r.out[1]
                          /\ beta_2' = r.out[2]
                          /\ v0_calc' = r.out[3]
                          /\ Vvalues_2' = DivAll(vel, r.out[3])
                          /\ defined' = defined \cup
                                {"Gparams", "alpha_2", "beta_2", "v0_calc",
                                 "Yvalues_2", "Vvalues_2"}
                     ELSE UNCHANGED <<defined, alpha_2, beta_2, v0_calc, Vvalues_2>>
    /\ UNCHANGED <<data, v0, vel, alt, Vvalues, Yvalues, h0, alpha_1, beta_1,
                   vel1, alt1, vel_smooth, alt_smooth, fitres>>

\* pow(0.5*cd*1.29*7160.*A / (alpha*np.sin(slope)*rho**(2/3.0)), 3.0); the
\* divisor is an astropy Quantity, so a zero divisor gives inf
GeometryCls(alpha) ==
    IF IsNaN(alpha) THEN "nan"
    ELSE IF IsInf(alpha) THEN "zero"
    ELSE IF alpha.num = 0 THEN "inf"
    ELSE "fin"

\* the parameters f of Section 3.1 fixes: cd = 1, A = 1.21, rho = 3500,
\* mu = 2/3.
Defaults == [mf |-> NaN, mu |-> Q(2, 3), cd |-> I(1), rho |-> I(3500), A |-> Q(121, 100)]

\* me_txt = pow(0.5*cd*1.29*7160.*A / (alpha*np.sin(slope)*rho**(2/3.0)), 3.0)
\* the two other factors are commented out; the factors that entered are
\* kept, and the IEEE class of the value
me_txt(alpha) ==
    [section |-> "3.1", raised |-> "none",
     cls |-> GeometryCls(alpha),
     geometry |-> <<Defaults.cd, Defaults.A, alpha, Defaults.rho>>,
     exponential |-> <<>>,
     velocity |-> <<>>]

NoFit == [V0 |-> NaN, alpha |-> NaN, beta |-> NaN, res |-> NanSum(<<>>),
          resl |-> <<>>, me_txt |-> me_txt(NaN), from |-> "none"]

\* f(V0, alpha, beta) of Section 3.1: yvalues = alt/h0, vvalues = vel/V0,
\* res = min_fun_v([alpha, beta, V0/1000.], vel, yvalues, []);
\* return (alpha, beta, V0)
f(V0, alpha, beta, from) ==
    LET yvalues == DivAll(alt, h0)
        x == <<alpha, beta, Div(V0, Thousand)>>
    IN  [V0 |-> V0, alpha |-> alpha, beta |-> beta,
         res |-> min_fun_v(x, vel, yvalues),
         resl |-> ResList_v(x, vel, yvalues), me_txt |-> me_txt(alpha),
         from |-> from]

\* out = interact(f, V0=(v0_calc*.5, v0_calc*1.5, 250.),
\*                alpha=(alpha_2*.1, alpha_2*1.9, 0.25),
\*                beta=(beta_2*.5, beta_2*1.5, 0.1))
\* and the calls of f the sliders make; a slider position is given as a
\* fraction (in tenths) of the fitted value it is centred on
Section31(positions) ==
    /\ cell' = "manual" /\ Ran
    /\ UNCHANGED <<Vvalues_2, alpha_fit, beta_fit, v0_fit, Vvalues_fit, mass>>
    /\ defined' = defined \cup {"x", "f"} \cup
          (IF {"v0_calc", "alpha_2", "beta_2", "h0", "alt", "vel"} \subseteq defined
           THEN {"out"} ELSE {})
    /\ IF ~({"v0_calc", "alpha_2", "beta_2", "h0", "alt", "vel"} \subseteq defined)
       THEN err' = "NameError" /\ fitres' = fitres /\ widget' = widget
       ELSE /\ err' = "none"
            /\ \E p \in positions :
                 fitres' = f(Mul(v0_calc, Q(p[1], 10)), Mul(alpha_2, Q(p[2], 10)),
                             Mul(beta_2, Q(p[3], 10)), "sliders")
            /\ widget' = <<fitres'.alpha, fitres'.beta, fitres'.V0>>
    /\ fdef' = "3.1"
    /\ UNCHANGED <<data, v0, vel, alt, Vvalues, Yvalues, h0, alpha_1, beta_1,
                   vel1, alt1, vel_smooth, alt_smooth, alpha_2, beta_2, v0_calc, call>>

\* f called with the output of Section 1.2: f(v0, alpha_1, beta_1)
ManualOfFit1 ==
    /\ fdef = "3.1"
    /\ cell' = "manual1" /\ Ran
    /\ UNCHANGED <<Vvalues_2, widget, alpha_fit, beta_fit, v0_fit, Vvalues_fit, fdef, mass>>
    /\ IF ~({"v0", "alpha_1", "beta_1", "h0", "alt", "vel"} \subseteq defined)
       THEN err' = "NameError" /\ fitres' = fitres
       ELSE IF v0 = <<>>
       THEN err' = "TypeError" /\ fitres' = fitres
       ELSE err' = "none" /\ fitres' = f(v0[1], alpha_1, beta_1, "fit1")
    /\ UNCHANGED <<defined, data, v0, vel, alt, Vvalues, Yvalues, h0, alpha_1,
                   beta_1, vel1, alt1, vel_smooth, alt_smooth, alpha_2, beta_2, v0_calc, call>>

(***************************************************************************)
(* Sections 1.3, 2.3, 3.2 and 4: the mass plots.  Each defines a new      *)
(* global f and hands it to interact; a call of f shows the boundary      *)
(* curve and the final mass m_txt.  A mass is kept as the IEEE class of   *)
(* the product and the factors that entered it; an exception raised in f  *)
(* is shown by the widget as a traceback and nothing else is shown.       *)
(***************************************************************************)
\* np.exp(-beta/(1-mu)).  numpy: a NumPy float divided by zero is an
\* infinity or NaN; a Python float divided by zero raises ZeroDivisionError
ExponentialCls(beta, mu, numpy) ==
    IF IsNaN(beta) \/ IsNaN(mu) THEN "nan"
    ELSE IF mu = I(1)
    THEN IF ~numpy THEN "ZeroDivisionError"
         ELSE IF beta.num > 0 THEN "zero"
         ELSE IF beta.num < 0 THEN "inf"
         ELSE "nan"
    ELSE IF IsInf(beta)
    THEN IF (beta.num > 0) = Lt(mu, I(1)) THEN "zero" ELSE "inf"
    ELSE "fin"

\* (1 - v**2)
VelocityFactor(v) == Sub(I(1), Mul(v, v))

VelocityCls(v) ==
    LET w == VelocityFactor(v)
    IN  IF IsNaN(w) THEN "nan" ELSE IF IsInf(w) THEN "inf"
        ELSE IF w.num = 0 THEN "zero" ELSE "fin"

\* the class of a product of factors with the classes cs
ProductCls(cs) ==
    IF "nan" \in cs \/ {"zero", "inf"} \subseteq cs THEN "nan"
    ELSE IF "zero" \in cs THEN "zero"
    ELSE IF "inf" \in cs THEN "inf"
    ELSE "fin"

\* m_txt = pow(...) * np.exp(-beta/(1-mu)) * (1 - v**2) of one section
m_txt(section, alpha, beta, v, a, numpy) ==
    LET e == ExponentialCls(beta, a.mu, numpy)
    IN  [section |-> section,
         raised |-> IF e = "ZeroDivisionError" THEN e ELSE "none",
         cls |-> IF e = "ZeroDivisionError" THEN "none"
                 ELSE ProductCls({GeometryCls(alpha), e, VelocityCls(v)}),
         geometry |-> <<a.cd, a.A, alpha, a.rho>>,
         exponential |-> <<beta, a.mu>>,
         velocity |-> <<v>>]

\* y = [np.log((mu - 1) * (np.log(mf/m0) + 3 * i)) for i in x]: the class of
\* the curve's points; mf and m0 are Python floats, m0 > 0
BoundaryCls(a) ==
    IF IsNaN(a.mf) \/ IsNaN(a.mu) \/ a.mf.num < 0 THEN "nan"
    ELSE IF a.mu = I(1) THEN (IF a.mf.num = 0 THEN "nan" ELSE "ninf")
    ELSE IF a.mf.num = 0 THEN (IF Lt(a.mu, I(1)) THEN "pinf" ELSE "nan")
    ELSE "fin or nan"

NoArguments == [mf |-> NaN, mu |-> NaN, cd |-> NaN, rho |-> NaN, A |-> NaN]

NoMass == [arguments |-> NoArguments, boundary |-> "none", shown |-> <<>>]

\* what a call f(mf, mu, cd, rho, A) leaves: ms are the masses in the order
\* they are computed, the first that raises ends the call
MassCall(a, ms) ==
    LET bad == {i \in 1..Len(ms) : ms[i].raised # "none"}
    IN  [raised |-> IF bad = {} THEN "none"
                    ELSE ms[CHOOSE i \in bad : \A j \in bad : i <= j].raised,
         mass |-> [arguments |-> a, boundary |-> BoundaryCls(a),
                   shown |-> IF bad = {} THEN ms ELSE <<>>]]

\* a mass cell that ended with the exception e before a mass was computed
MassFails(a, e) ==
    [raised |-> e,
     mass |-> [arguments |-> a, boundary |-> BoundaryCls(a), shown |-> <<>>]]

MaxMassRuns == 12

RanMass == execution_count < MaxMassRuns /\ execution_count' = execution_count + 1

\* a mass cell: f is redefined, then called; outcome is what that call leaves
MassCell(name, section, outcome) ==
    /\ cell' = name /\ RanMass
    /\ fdef' = section
    /\ defined' = defined \cup {"f"}
    /\ mass' = outcome.mass /\ err' = outcome.raised
    /\ UNCHANGED <<data, v0, vel, alt, Vvalues, Yvalues, h0, alpha_1, beta_1, vel1, alt1,
                   vel_smooth, alt_smooth, alpha_2, beta_2, v0_calc, Vvalues_2, fitres,
                   widget, alpha_fit, beta_fit, v0_fit, Vvalues_fit, call>>

\* Section 1.3: m_txt from alpha_1, beta_1 and Vvalues[-1]
Section13(arguments) ==
    LET Outcome(a) ==
          IF ~({"alpha_1", "beta_1", "slope", "Vvalues"} \subseteq defined)
          THEN MassFails(a, "NameError")
          ELSE IF Vvalues = <<>> THEN MassFails(a, "IndexError")
          ELSE MassCall(a, <<m_txt("1", alpha_1, beta_1, Last(Vvalues), a, TRUE)>>)
    IN  \E a \in arguments : MassCell("mass13", "1.3", Outcome(a))

\* Section 2.3: m_txt from alpha_2, beta_2 and Vvalues_2[-1]
Section23(arguments) ==
    LET Outcome(a) ==
          IF ~({"alpha_2", "beta_2", "slope", "Vvalues_2"} \subseteq defined)
          THEN MassFails(a, "NameError")
          ELSE IF Vvalues_2 = <<>> THEN MassFails(a, "IndexError")
          ELSE MassCall(a, <<m_txt("2", alpha_2, beta_2, Last(Vvalues_2), a, TRUE)>>)
    IN  \E a \in arguments : MassCell("mass23", "2.3", Outcome(a))

\* alpha_fit, beta_fit, v0_fit = out.widget.result[0..2];
\* Yvalues_fit = alt/h0; Vvalues_fit = vel/v0_fit.  The result of the sliders
\* holds Python floats
FitFromSliders ==
    /\ cell' = "fit3" /\ RanMass
    /\ IF "out" \notin defined
       THEN /\ err' = "NameError"
            /\ UNCHANGED <<defined, alpha_fit, beta_fit, v0_fit, Vvalues_fit>>
       ELSE /\ err' = "none"
            /\ alpha_fit' = widget[1]
            /\ beta_fit' = widget[2]
            /\ v0_fit' = widget[3]
            /\ Vvalues_fit' = DivAll(vel, widget[3])
            /\ defined' = defined \cup {"alpha_fit", "beta_fit", "v0_fit",
                                        "Yvalues_fit", "Vvalues_fit"}
    /\ UNCHANGED <<data, v0, vel, alt, Vvalues, Yvalues, h0, alpha_1, beta_1, vel1, alt1,
                   vel_smooth, alt_smooth, alpha_2, beta_2, v0_calc, Vvalues_2, fitres,
                   widget, fdef, mass, call>>

\* Section 3.2: m_txt from alpha_fit, beta_fit and Vvalues_fit[-1]
Section32(arguments) ==
    LET Outcome(a) ==
          IF ~({"alpha_fit", "beta_fit", "slope", "Vvalues_fit"} \subseteq defined)
          THEN MassFails(a, "NameError")
          ELSE IF a.mu # I(1) /\ Vvalues_fit = <<>> THEN MassFails(a, "IndexError")
          ELSE MassCall(a, <<m_txt("3", alpha_fit, beta_fit,
                                   IF Vvalues_fit = <<>> THEN NaN ELSE Last(Vvalues_fit),
                                   a, FALSE)>>)
    IN  \E a \in arguments : MassCell("mass32", "3.2", Outcome(a))

\* the names the branch of Section 4 for one section reads
SectionNames(section) ==
    CASE section = "1" -> {"alpha_1", "beta_1", "v0"}
      [] section = "2" -> {"alpha_2", "beta_2", "v0_calc"}
      [] section = "3" -> {"alpha_fit", "beta_fit", "v0_fit"}

\* Section 4, values = 'section 1' | 'section 2' | 'section 3':
\* vvalues = vel/V0 and m_txt from the alpha, beta and V0 of that section
OneSection(section, a) ==
    LET alpha == CASE section = "1" -> alpha_1 [] section = "2" -> alpha_2
                   [] section = "3" -> alpha_fit
        beta  == CASE section = "1" -> beta_1 [] section = "2" -> beta_2
                   [] section = "3" -> beta_fit
        V0    == CASE section = "1" -> v0 [] section = "2" -> <<v0_calc>>
                   [] section = "3" -> <<v0_fit>>
    IN  IF ~(SectionNames(section) \cup {"h0", "alt", "vel", "slope"} \subseteq defined)
        THEN MassFails(a, "NameError")
        ELSE IF vel = <<>> /\ ~(section = "3" /\ a.mu = I(1))
        THEN MassFails(a, "IndexError")
        ELSE IF V0 = <<>> THEN MassFails(a, "TypeError")
        ELSE MassCall(a, <<m_txt(section, alpha, beta,
                                 IF vel = <<>> THEN NaN ELSE Div(Last(vel), V0[1]),
                                 a, section # "3")>>)

\* Section 4, values = 'all': m_txt_1, m_txt_2, m_txt_3 from the names the
\* three sections left
AllSections(a) ==
    IF ~({"alpha_1", "beta_1", "alpha_2", "beta_2", "alpha_fit", "beta_fit", "slope",
          "Vvalues", "Vvalues_2", "Vvalues_fit"} \subseteq defined)
    THEN MassFails(a, "NameError")
    ELSE IF Vvalues = <<>> \/ Vvalues_2 = <<>> THEN MassFails(a, "IndexError")
    ELSE IF a.mu # I(1) /\ Vvalues_fit = <<>> THEN MassFails(a, "IndexError")
    ELSE MassCall(a, <<m_txt("1", alpha_1, beta_1, Last(Vvalues), a, TRUE),
                       m_txt("2", alpha_2, beta_2, Last(Vvalues_2), a, TRUE),
                       m_txt("3", alpha_fit, beta_fit,
                             IF Vvalues_fit = <<>> THEN NaN ELSE Last(Vvalues_fit),
                             a, FALSE)>>)

Section4(values, arguments) ==
    \E v \in values :
       LET Outcome(a) == IF v = "all" THEN AllSections(a) ELSE OneSection(v, a)
       IN  \E a \in arguments : MassCell("mass4", "4", Outcome(a))

(***************************************************************************)
(* Inputs                                                                  *)
(***************************************************************************)
MaxRows == 6

MaxDropped == 1

\* the velocity of the row i places above the end of the trajectory
SpeedAt(i) == I(10 + i * i)

\* a file of n rows written lowest row first, heights in steps of `step`
Ramp(n, step) == [i \in 1..n |-> Row(SpeedAt(i), I(step * i))]

\* the rows of t at the places D carry the invalid velocity bad
Spoil(t, D, bad) == [i \in 1..Len(t) |-> IF i \in D THEN Row(bad, t[i].h) ELSE t[i]]

HeightSteps == {10, 10000}

BadVelocities == {NaN, I(1)}

\* the files of a session: a full trajectory, one with its lowest row
\* invalid, and one with every row invalid
Files ==
    { Spoil(Ramp(MaxRows, 10), D, I(1)) : D \in {{}, 1..2, 1..MaxRows} }

SuppliedV0 == {I(40), I(-40)}

\* outcomes of minimize: the last iterate and whether it converged
Iterates2 == {<<I(0), I(0), TRUE>>, <<I(2000), I(50), TRUE>>,
              <<I(2000), I(50), FALSE>>}

\* the third component is a multiple of the seed V0/1000
Iterates3 == {<<I(0), I(0), Q(9, 10), TRUE>>, <<I(2000), I(50), Q(11, 10), TRUE>>,
              <<I(2000), I(50), Q(11, 10), FALSE>>}

Positions == {<<10, 10, 10>>, <<15, 19, 15>>}

(***************************************************************************)
(* The notebook: any cell may be run at any time                           *)
(***************************************************************************)
Init ==
    /\ defined = {}
    /\ data = <<>>
    /\ v0 = <<>>
    /\ vel = <<>> /\ alt = <<>>
    /\ Vvalues = <<>> /\ Yvalues = <<>> /\ h0 = NaN
    /\ alpha_1 = NaN /\ beta_1 = NaN
    /\ vel1 = <<>> /\ alt1 = <<>>
    /\ vel_smooth = <<>> /\ alt_smooth = <<>>
    /\ alpha_2 = NaN /\ beta_2 = NaN /\ v0_calc = NaN /\ Vvalues_2 = <<>>
    /\ widget = <<>>
    /\ alpha_fit = NaN /\ beta_fit = NaN /\ v0_fit = NaN /\ Vvalues_fit = <<>>
    /\ fdef = "none"
    /\ mass = NoMass
    /\ fitres = NoFit
    /\ call = NoCall
    /\ cell = "none"
    /\ err = "none"
    /\ execution_count = 0

Next ==
    \/ ReadData(Files)
    \/ ResetV0
    \/ SupplyV0(SuppliedV0)
    \/ SortData
    \/ Normalise
    \/ Fit1(Iterates2)
    \/ Smooth
    \/ Fit2(Iterates3)
    \/ Section31(Positions)
    \/ ManualOfFit1

Spec == Init /\ [][Next]_vars

(***************************************************************************)
(* The sections from a loaded and sorted table on, with the mass plots     *)
(***************************************************************************)
\* the arguments of a mass f: mf in grams, mu, cd, rho, A.  The slider of mu
\* ends at 2/3; mu = 1 is reached by calling f itself
MassArguments ==
    { [mf |-> I(500), mu |-> mu, cd |-> Q(12, 10), rho |-> I(3500), A |-> Q(121, 100)] :
        mu \in {Q(2, 3), I(1)} }

Values == {"1", "2", "3", "all"}

InitMass ==
    /\ defined = {"data", "slope", "vel_col", "h_col", "v0"}
    /\ data = Reverse(Ramp(MaxRows, 10))
    /\ v0 = <<>>
    /\ vel = <<>> /\ alt = <<>>
    /\ Vvalues = <<>> /\ Yvalues = <<>> /\ h0 = NaN
    /\ alpha_1 = NaN /\ beta_1 = NaN
    /\ vel1 = <<>> /\ alt1 = <<>>
    /\ vel_smooth = <<>> /\ alt_smooth = <<>>
    /\ alpha_2 = NaN /\ beta_2 = NaN /\ v0_calc = NaN /\ Vvalues_2 = <<>>
    /\ fitres = NoFit
    /\ widget = <<>>
    /\ alpha_fit = NaN /\ beta_fit = NaN /\ v0_fit = NaN /\ Vvalues_fit = <<>>
    /\ fdef = "none"
    /\ mass = NoMass
    /\ call = NoCall
    /\ cell = "sort"
    /\ err = "none"
    /\ execution_count = 3

NextMass ==
    \/ Normalise
    \/ Fit1({<<I(0), I(0), TRUE>>})
    \/ Smooth
    \/ Fit2({<<I(2000), I(50), Q(11, 10), TRUE>>})
    \/ Section31({<<15, 19, 15>>})
    \/ FitFromSliders
    \/ Section13(MassArguments)
    \/ Section23(MassArguments)
    \/ Section32(MassArguments)
    \/ Section4(Values, MassArguments)

SpecMass == InitMass /\ [][NextMass]_vars

(***************************************************************************)
(* Q4_min called on arguments of the caller's choice, in a kernel whose    *)
(* global Yvalues is whatever an earlier normalisation left                *)
(***************************************************************************)
NormalisedHeights ==
    {<<I(3), I(2)>>, <<I(9), I(8)>>, <<I(3), I(1)>>, <<Q(1, 2), Q(1, 4)>>}

NormalisedVelocities == {<<I(1), Q(1, 2)>>, <<Q(9, 10), Q(3, 10)>>}

InitEstimator ==
    /\ \E g \in NormalisedHeights \cup {<<>>}, d \in BOOLEAN :
          /\ defined = IF d THEN {"Yvalues"} ELSE {}
          /\ Yvalues = IF d THEN g ELSE <<>>
    /\ data = <<>>
    /\ v0 = <<>>
    /\ vel = <<>> /\ alt = <<>>
    /\ Vvalues = <<>> /\ h0 = NaN
    /\ alpha_1 = NaN /\ beta_1 = NaN
    /\ vel1 = <<>> /\ alt1 = <<>>
    /\ vel_smooth = <<>> /\ alt_smooth = <<>>
    /\ alpha_2 = NaN /\ beta_2 = NaN /\ v0_calc = NaN /\ Vvalues_2 = <<>>
    /\ fitres = NoFit
    /\ widget = <<>>
    /\ alpha_fit = NaN /\ beta_fit = NaN /\ v0_fit = NaN /\ Vvalues_fit = <<>>
    /\ fdef = "none"
    /\ mass = NoMass
    /\ \E v \in NormalisedVelocities, y \in NormalisedHeights :
          call = [NoCall EXCEPT !.fn = "args", !.vvals = v, !.yvals = y]
    /\ cell = "none"
    /\ err = "none"
    /\ execution_count = 0

\* Q4_min(vvals, yvals) called on the arguments drawn
CallQ4Min(iterates) ==
    /\ call.fn = "args"
    /\ \E it \in iterates : call' = Q4_min(call.vvals, call.yvals, it)
    /\ UNCHANGED <<defined, data, v0, vel, alt, Vvalues, Yvalues, h0, alpha_1, beta_1,
                   vel1, alt1, vel_smooth, alt_smooth, alpha_2, beta_2, v0_calc,
                   Vvalues_2, fitres, widget, alpha_fit, beta_fit, v0_fit, Vvalues_fit,
                   fdef, mass, cell, err, execution_count>>

NextEstimator == CallQ4Min(Iterates2)

SpecEstimator == InitEstimator /\ [][NextEstimator]_vars

(***************************************************************************)
(* Loading alone: a table read in any row order, the sort cell and         *)
(* Section 1.1                                                             *)
(***************************************************************************)
\* a trajectory with two rows of equal height and one row whose velocity
\* is not above 1
LoadRows ==
    <<Row(I(50), I(70)), Row(I(1), I(50)), Row(I(30), I(30)), Row(I(20), I(30)),
      Row(I(40), I(10))>>

RowOrders(n) ==
    {p \in [1..n -> 1..n] : \A i, j \in 1..n : p[i] = p[j] => i = j}

LoadTables ==
    { [k \in 1..Len(LoadRows) |-> LoadRows[p[k]]] : p \in RowOrders(Len(LoadRows)) }

\* the table was read and v0 set; the sort cell may have run on an earlier
\* table
InitLoad ==
    /\ \E sorted_before \in BOOLEAN :
          defined = {"data", "slope", "v0"} \cup
                    (IF sorted_before THEN {"vel_col", "h_col"} ELSE {})
    /\ data \in LoadTables
    /\ v0 = <<>>
    /\ vel = <<>> /\ alt = <<>>
    /\ Vvalues = <<>> /\ Yvalues = <<>> /\ h0 = NaN
    /\ alpha_1 = NaN /\ beta_1 = NaN
    /\ vel1 = <<>> /\ alt1 = <<>>
    /\ vel_smooth = <<>> /\ alt_smooth = <<>>
    /\ alpha_2 = NaN /\ beta_2 = NaN /\ v0_calc = NaN /\ Vvalues_2 = <<>>
    /\ fitres = NoFit
    /\ widget = <<>>
    /\ alpha_fit = NaN /\ beta_fit = NaN /\ v0_fit = NaN /\ Vvalues_fit = <<>>
    /\ fdef = "none"
    /\ mass = NoMass
    /\ call = NoCall
    /\ cell = "v0"
    /\ err = "none"
    /\ execution_count = 2

NextLoad == SortData \/ Normalise

SpecLoad == InitLoad /\ [][NextLoad]_vars

(***************************************************************************)
(* Data preparation alone: a loaded and sorted table, Sections 1.1 and 2.1 *)
(***************************************************************************)
MaxLong == 12

\* a sorted table of n rows from height top down in steps of step
Descent(n, top, step) ==
    [i \in 1..n |-> Row(SpeedAt(n + 1 - i), I(top - (i - 1) * step))]

Tops == {<<999, 1>>, <<1000, 1>>, <<10000, 500>>}

Tables ==
    { Spoil(Descent(n, ts[1], ts[2]), D, bad) :
        n \in 0..MaxLong, ts \in Tops, bad \in BadVelocities,
        D \in {E \in SUBSET (1..MaxLong) : Cardinality(E) <= MaxDropped} }
    \cup { Spoil(Descent(n, 1000, 1), 1..n, I(1)) : n \in 1..MaxRows }

InitData ==
    /\ defined = {"data", "slope", "vel_col", "h_col", "v0"}
    /\ data \in Tables
    /\ v0 \in {<<>>} \cup {<<x>> : x \in SuppliedV0}
    /\ vel = <<>> /\ alt = <<>>
    /\ Vvalues = <<>> /\ Yvalues = <<>> /\ h0 = NaN
    /\ alpha_1 = NaN /\ beta_1 = NaN
    /\ vel1 = <<>> /\ alt1 = <<>>
    /\ vel_smooth = <<>> /\ alt_smooth = <<>>
    /\ alpha_2 = NaN /\ beta_2 = NaN /\ v0_calc = NaN /\ Vvalues_2 = <<>>
    /\ widget = <<>>
    /\ alpha_fit = NaN /\ beta_fit = NaN /\ v0_fit = NaN /\ Vvalues_fit = <<>>
    /\ fdef = "none"
    /\ mass = NoMass
    /\ fitres = NoFit
    /\ call = NoCall
    /\ cell = "sort"
    /\ err = "none"
    /\ execution_count = 3

NextData == Normalise \/ Smooth

SpecData == InitData /\ [][NextData]_vars

(***************************************************************************)
(* The objective functions alone                                           *)
(***************************************************************************)
MaxPoints == 3

PointVelocities == {NaN, PInf, Q(1, 2)}

PointHeights == {NaN, NInf, I(1)}

Points == UNION { [1..n -> PointVelocities \X PointHeights] : n \in 0..MaxPoints }

Parameters == {<<I(5), I(1), I(0)>>, <<I(5), I(1), Q(1, 1000)>>}

InitObjective ==
    /\ defined = {}
    /\ data = <<>>
    /\ v0 = <<>>
    /\ vel = <<>> /\ alt = <<>>
    /\ Vvalues = <<>> /\ Yvalues = <<>> /\ h0 = NaN
    /\ alpha_1 = NaN /\ beta_1 = NaN
    /\ vel1 = <<>> /\ alt1 = <<>>
    /\ vel_smooth = <<>> /\ alt_smooth = <<>>
    /\ alpha_2 = NaN /\ beta_2 = NaN /\ v0_calc = NaN /\ Vvalues_2 = <<>>
    /\ widget = <<>>
    /\ alpha_fit = NaN /\ beta_fit = NaN /\ v0_fit = NaN /\ Vvalues_fit = <<>>
    /\ fdef = "none"
    /\ mass = NoMass
    /\ fitres = NoFit
    /\ \E x \in Parameters, p \in Points :
         call = [fn |-> "args", x |-> x,
                 vvals |-> [i \in 1..Len(p) |-> p[i][1]],
                 yvals |-> [i \in 1..Len(p) |-> p[i][2]],
                 res |-> <<>>, fun |-> NanSum(<<>>)]
    /\ cell = "none"
    /\ err = "none"
    /\ execution_count = 0

\* min_fun(x, vvals, yvals, err) called on the arguments drawn
CallMinFun ==
    /\ call.fn = "args"
    /\ UNCHANGED <<Vvalues_2, widget, alpha_fit, beta_fit, v0_fit, Vvalues_fit, fdef, mass>>
    /\ call' = [call EXCEPT !.fn = "min_fun",
                            !.res = ResList(call.x, call.vvals, call.yvals),
                            !.fun = min_fun(call.x, call.vvals, call.yvals)]
    /\ UNCHANGED <<defined, data, v0, vel, alt, Vvalues, Yvalues, h0, alpha_1,
                   beta_1, vel1, alt1, vel_smooth, alt_smooth, alpha_2, beta_2, v0_calc,
                   fitres, cell, err, execution_count>>

\* min_fun_v(x, velocities, yvals, err) called on the arguments drawn
CallMinFunV ==
    /\ call.fn = "args"
    /\ UNCHANGED <<Vvalues_2, widget, alpha_fit, beta_fit, v0_fit, Vvalues_fit, fdef, mass>>
    /\ call' = [call EXCEPT !.fn = "min_fun_v",
                            !.res = ResList_v(call.x, call.vvals, call.yvals),
                            !.fun = min_fun_v(call.x, call.vvals, call.yvals)]
    /\ UNCHANGED <<defined, data, v0, vel, alt, Vvalues, Yvalues, h0, alpha_1,
                   beta_1, vel1, alt1, vel_smooth, alt_smooth, alpha_2, beta_2, v0_calc,
                   fitres, cell, err, execution_count>>

NextObjective == CallMinFun \/ CallMinFunV

SpecObjective == InitObjective /\ [][NextObjective]_vars

(***************************************************************************)
(* Properties                                                              *)
(***************************************************************************)
\* a step that ran the cell c
RanCell(c) == cell' = c /\ execution_count' = execution_count + 1

AboveOne(x) == (x.den > 0 /\ x.num > x.den) \/ (x.den = 0 /\ x.num = 1)

\* the place in t of the k-th row whose velocity is above one
KeptPlace(t, k) ==
    CHOOSE i \in 1..Len(t) :
        /\ AboveOne(t[i].v)
        /\ Cardinality({j \in 1..i : AboveOne(t[j].v)}) = k

KeptCount(t) == Cardinality({j \in 1..Len(t) : AboveOne(t[j].v)})

RECURSIVE SumFirst(_, _)
SumFirst(s, w) == IF w = 0 THEN I(0) ELSE Add(SumFirst(s, w - 1), s[w])

Min(a, b) == IF a < b THEN a ELSE b

\* C1: after the normalising cell, vel/alt hold exactly the rows of the table
\* whose velocity is above 1.0, in table order (no row with velocity <= 1.0
\* or NaN), the normalised velocities are those velocities over v0, and a v0
\* that was unset is the mean of the first min(10, n) retained velocities.
C1_FilterThenReference ==
    [][ (RanCell("normalise") /\ err' \in {"none", "IndexError"}) =>
          LET n == Len(vel')
          IN  /\ n = KeptCount(data)
              /\ Len(alt') = n
              /\ Len(Vvalues') = n
              /\ \A k \in 1..n :
                    /\ AboveOne(vel'[k])
                    /\ data[KeptPlace(data, k)] = Row(vel'[k], alt'[k])
                    /\ Mul(Vvalues'[k], v0'[1]) = vel'[k]
              /\ (err' = "none" => Len(Yvalues') = n)
              /\ (v0 # <<>> => v0' = v0)
              /\ (v0 = <<>> /\ n > 0 =>
                    Mul(v0'[1], I(Min(10, n))) = SumFirst(vel', Min(10, n))) ]_vars

\* a normalisation of more than ten retained rows, one of the first ten
\* table rows dropped, with the reference velocity computed
C1_Witness ==
    /\ cell = "normalise" /\ err = "none"
    /\ Len(vel) > 10
    /\ \E i \in 1..10 : ~AboveOne(data[i].v)
    /\ v0 \notin {<<x>> : x \in SuppliedV0}

\* C2: the scale height is 7.160 when the first retained height is strictly
\* below 1000 and 7160 otherwise (1000 itself selects 7160), and every
\* normalised height is the height over that scale height.
C2_ScaleHeight ==
    (cell = "normalise" /\ err = "none") =>
        /\ (alt[1].den > 0 /\ alt[1].num < 1000 * alt[1].den
               => h0 = [num |-> 179, den |-> 25])
        /\ (~(alt[1].den > 0 /\ alt[1].num < 1000 * alt[1].den)
               => h0 = [num |-> 7160, den |-> 1])
        /\ Len(Yvalues) = Len(alt)
        /\ \A k \in 1..Len(alt) : Mul(Yvalues[k], h0) = alt[k]

\* a normalisation whose first retained height is exactly 1000
C2_Witness ==
    /\ cell = "normalise" /\ err = "none"
    /\ alt[1] = I(1000)
    /\ Len(alt) > 1

\* C3: with v0 unset and no row retained, the normalising cell fails with
\* InsufficientDataError and assigns neither v0 nor normalised output.
C3_EmptyIsInsufficientData ==
    [][ (/\ RanCell("normalise")
         /\ {"data", "vel_col", "h_col", "v0"} \subseteq defined
         /\ v0 = <<>>
         /\ KeptCount(data) = 0)
        => (/\ err' = "InsufficientDataError"
            /\ v0' = <<>>
            /\ Vvalues' = Vvalues
            /\ Yvalues' = Yvalues) ]_vars

\* C4: for n >= 5 retained rows each pass is the 3-point mean of its input,
\* the result has n-4 entries, and the k-th twice-smoothed velocity is paired
\* with the original height two places further on.
C4_TwoPassSmoothing ==
    (cell = "smooth" /\ err = "none" /\ Len(vel) >= 5) =>
        LET n == Len(vel)
        IN  /\ Len(vel1) = n - 2
            /\ Len(vel_smooth) = n - 4
            /\ Len(alt_smooth) = n - 4
            /\ \A i \in 1..(n - 2) :
                  Mul(vel1[i], I(3)) = Add(vel[i], Add(vel[i + 1], vel[i + 2]))
            /\ \A k \in 1..(n - 4) :
                  /\ Mul(vel_smooth[k], I(3)) =
                        Add(vel1[k], Add(vel1[k + 1], vel1[k + 2]))
                  /\ alt_smooth[k] = alt[k + 2]

\* a smoothing of at least six rows whose output is not constant
C4_Witness ==
    /\ cell = "smooth" /\ err = "none"
    /\ Len(vel) >= 6
    /\ vel_smooth[1] # vel_smooth[2]
    /\ alt_smooth[1] # alt[1]

\* C5: with one to four rows retained the smoothing cell fails with
\* InsufficientDataError.
C5_ShortIsInsufficientData ==
    (cell = "smooth" /\ Len(vel) \in 1..4) => err = "InsufficientDataError"

Evaluated == call.fn \in {"min_fun", "min_fun_v"}

FiniteTerms(res) == {i \in 1..Len(res) : res[i].cls = "fin"}

\* C6 as claimed: the objective is the sum of exactly the finite terms, so
\* it is finite whatever the terms are.
C6_OnlyFiniteTermsSummed ==
    Evaluated =>
        /\ call.fun.cls = "fin"
        /\ Len(call.fun.sum) = Cardinality(FiniteTerms(call.res))

\* C6 as amended: a NaN term (a NaN velocity or height gives one) is left
\* out of the sum and never makes the objective NaN; a +inf term is added
\* and makes the objective +inf; without one the objective is the sum, in
\* order, of the finite terms.
C6_NaNTermsSkipped ==
    Evaluated =>
        LET res == call.res
            fin == FiniteTerms(res)
        IN  /\ Len(res) = Len(call.vvals)
            /\ \A i \in 1..Len(res) :
                  IsNaN(call.vvals[i]) \/ IsNaN(call.yvals[i]) => res[i].cls = "nan"
            /\ call.fun.cls # "nan"
            /\ call.fun.cls = "pinf" <=> \E i \in 1..Len(res) : res[i].cls = "pinf"
            /\ call.fun.cls = "fin" =>
                  /\ Len(call.fun.sum) = Cardinality(fin)
                  /\ \A i \in fin :
                        call.fun.sum[Cardinality({j \in fin : j <= i})] = res[i].val

\* an evaluation with a NaN term and a finite term and no infinite one
C6_Witness ==
    /\ Evaluated
    /\ \E i \in 1..Len(call.res) : call.res[i].cls = "nan"
    /\ call.fun.cls = "fin"
    /\ Len(call.fun.sum) >= 1

Positive(x) == x.num > 0

\* lo_n/lo_d <= x <= hi_n/hi_d for a finite x
Within(x, lo_n, lo_d, hi_n, hi_d) ==
    /\ x.den > 0
    /\ lo_n * x.den <= x.num * lo_d
    /\ x.num * hi_d <= hi_n * x.den

\* C7: a returned fit has 0.01 <= alpha <= 1000 and 0.0001 <= beta <= 20,
\* and the V0 the three-parameter fit returns lies within 5% of a positive
\* V0 passed to it.
C7_ResultInsideBounds ==
    /\ (cell = "fit1" /\ err = "none") =>
          /\ Within(alpha_1, 1, 100, 1000, 1)
          /\ Within(beta_1, 1, 10000, 20, 1)
    /\ (cell = "fit2" /\ err = "none") =>
          /\ Within(alpha_2, 1, 100, 1000, 1)
          /\ Within(beta_2, 1, 10000, 20, 1)
          /\ (v0[1].den > 0 /\ Positive(v0[1])) =>
                /\ v0_calc.den > 0
                /\ 95 * v0[1].num * v0_calc.den <= 100 * v0_calc.num * v0[1].den
                /\ 100 * v0_calc.num * v0[1].den <= 105 * v0[1].num * v0_calc.den

\* a three-parameter fit that ends on the upper bounds of alpha and V0
C7_Witness ==
    /\ cell = "fit2" /\ err = "none"
    /\ Positive(v0[1])
    /\ alpha_2 = I(1000)
    /\ Mul(v0_calc, I(100)) = Mul(v0[1], I(105))

\* the estimator call of the last cell got as far as minimize with proper
\* bounds and an initial alpha outside [xmin[0], xmax[0]]
StartOutsideBox ==
    /\ \/ cell = "fit1" /\ call.fn = "Q4_min"
       \/ cell = "fit2" /\ call.fn = "Q4_min_v"
    /\ err = call.raised
    /\ call.lb # <<>>
    /\ \A i \in 1..Len(call.lb) : Lt(call.lb[i], call.ub[i])
    /\ A0Above(call.a0, call.ub[1]) \/ A0Below(call.a0, call.lb[1])

\* C8: an estimator call whose initial guess lies outside the bounds fails
\* with InvalidBoundsError.
C8_BadStartIsInvalidBounds == StartOutsideBox => err = "InvalidBoundsError"

\* the manual evaluation was called with the output of the two-parameter
\* fit, on the observations that fit was given
RoundTrip ==
    /\ cell = "manual1" /\ err = "none"
    /\ call.fn = "Q4_min" /\ call.raised = "none"
    /\ call.out = <<fitres.alpha, fitres.beta>>
    /\ call.vvals = DivAll(vel, fitres.V0)
    /\ call.yvals = DivAll(alt, h0)

RawResults(d, vvals, yvals) ==
    IF {"Vvalues", "Yvalues"} \subseteq d
    THEN {Q4_min(vvals, yvals, it).out : it \in Iterates2}
    ELSE {<<NaN>>}

SmoothedResults(d, velocities, heights, h, V0) ==
    IF {"vel_smooth", "alt_smooth", "h0", "v0"} \subseteq d
    THEN {Q4_min_v(velocities, heights, h, V0, it).out : it \in Iterates3}
    ELSE {<<NaN>>}

ManualResults(d, V0, alpha, beta, h, heights, velocities) ==
    IF {"v0_calc", "alpha_2", "beta_2", "h0", "alt", "vel"} \subseteq d
    THEN {LET x == <<Mul(alpha, Q(p[2], 10)), Mul(beta, Q(p[3], 10)),
                     Div(Mul(V0, Q(p[1], 10)), Thousand)>>
          IN  <<x, min_fun_v(x, velocities, DivAll(heights, h))>> : p \in Positions}
    ELSE {<<NaN>>}

\* C10: running one fit variant leaves what the other two produce as it was.
C10_VariantsIndependent ==
    [][ LET raw == RawResults(defined, Vvalues, Yvalues)
                     = RawResults(defined', Vvalues', Yvalues')
            smoothed == SmoothedResults(defined, vel_smooth, alt_smooth, h0, v0)
                          = SmoothedResults(defined', vel_smooth', alt_smooth', h0', v0')
            manual == ManualResults(defined, v0_calc, alpha_2, beta_2, h0, alt, vel)
                        = ManualResults(defined', v0_calc', alpha_2', beta_2', h0', alt', vel')
        IN  /\ RanCell("fit1") => smoothed /\ manual
            /\ RanCell("fit2") => raw /\ manual
            /\ RanCell("manual") => raw /\ smoothed ]_vars

\* C11: the estimator returns the best point found whether or not the
\* minimizer converged, and what it returns tells a converged run from one
\* that did not converge.
C11_NonConvergenceReported ==
    /\ (call.fn \in {"Q4_min", "Q4_min_v"} /\ call.raised = "none") =>
          \A i \in 1..Len(call.x) : call.out[i] = IF i = 3 THEN Mul(call.x[i], Thousand)
                                                  ELSE call.x[i]
    /\ (cell = "fit1" /\ err = "none") =>
          \A it1, it2 \in Iterates2 :
             LET r1 == Q4_min(Vvalues, Yvalues, it1)
                 r2 == Q4_min(Vvalues, Yvalues, it2)
             IN  r1.success # r2.success => r1.out # r2.out
    /\ (cell = "fit2" /\ err = "none") =>
          \A it1, it2 \in Iterates3 :
             LET r1 == Q4_min_v(vel_smooth, alt_smooth, h0, v0, it1)
                 r2 == Q4_min_v(vel_smooth, alt_smooth, h0, v0, it2)
             IN  r1.success # r2.success => r1.out # r2.out

\* C13: when the objective is evaluated on at least one observation and no
\* term is finite, the evaluation reports a DomainSingularityError and
\* returns no value.
C13_AllExcludedIsSingularity ==
    (Evaluated /\ Len(call.res) > 0 /\ FiniteTerms(call.res) = {}) =>
        call.fun.cls = "DomainSingularityError"

MassCells == {"mass13", "mass23", "mass32", "mass4"}

\* a mass f was called with mu = 1 and everything it reads was there
MuIsOne ==
    /\ cell \in MassCells
    /\ mass.arguments.mu = I(1)
    /\ err \notin {"NameError", "IndexError", "TypeError"}

\* C12: a final mass or boundary computed with mu = 1 is reported as a
\* DomainSingularityError, and no mass or boundary is shown.
C12_MuOneIsSingularity ==
    MuIsOne => /\ err = "DomainSingularityError"
               /\ mass.shown = <<>>

\* C14: a call of the two-parameter estimator on a non-empty sequence of
\* normalised heights succeeds and starts from
\* alpha0 = exp(y_last)/(2*1.0) with y_last the last element of the sequence
\* passed to it.
C14_GuessFromArgument ==
    call.fn = "Q4_min" =>
        /\ call.raised = "none"
        /\ call.a0 = A0(Last(call.yvals), B0)

\* the heights of t never increase
Descending(t) == \A k \in 1..(Len(t) - 1) : ~Lt(t[k].h, t[k + 1].h)

Occurrences(t, r) == Cardinality({i \in 1..Len(t) : t[i] = r})

\* C16: the sort cell leaves the rows of the table, each as it was, in
\* non-increasing height; the filter run on such a table keeps velocity and
\* height of one row together, so vel and alt have equal length, the
\* retained heights never increase, the first is the greatest (it selects
\* h0) and the last is the least (it ends Yvalues).
C16_SortedPairs ==
    [][ /\ (RanCell("sort") /\ err' = "none") =>
              /\ Len(data') = Len(data)
              /\ \A i \in 1..Len(data) :
                    Occurrences(data', data[i]) = Occurrences(data, data[i])
              /\ Descending(data')
        /\ (RanCell("normalise") /\ err' = "none" /\ Descending(data)) =>
              LET n == Len(vel')
              IN  /\ Len(alt') = n
                  /\ \A k \in 1..n : data[KeptPlace(data, k)] = Row(vel'[k], alt'[k])
                  /\ \A k \in 1..(n - 1) : ~Lt(alt'[k], alt'[k + 1])
                  /\ \A k \in 1..n : ~Lt(alt'[1], alt'[k]) /\ ~Lt(alt'[k], alt'[n])
                  /\ h0' = ScaleHeight(alt'[1])
                  /\ Last(Yvalues') = Div(alt'[n], h0') ]_vars

\* Section 1.1 has run on the sorted table: a row was dropped, two retained
\* rows have equal height, the first height is above the last
C16_Witness ==
    /\ cell = "normalise" /\ err = "none"
    /\ Descending(data)
    /\ Len(vel) = Len(data) - 1
    /\ \E k \in 1..(Len(alt) - 1) : alt[k] = alt[k + 1]
    /\ Lt(Last(alt), alt[1])

\* C17: v0 changes only when the cell that sets it runs, or when the
\* normalising or the smoothing cell finds the unset marker []; a v0 that
\* is set survives every other cell, and the normalising cell that finds
\* the marker computes v0 from the velocities it has just retained.
C17_V0Persists ==
    [][ /\ v0' # v0 =>
              \/ RanCell("v0")
              \/ v0 = <<>> /\ (RanCell("normalise") \/ RanCell("smooth"))
        /\ (v0 # <<>> /\ ~RanCell("v0")) => v0' = v0
        /\ (RanCell("normalise") /\ err' \in {"none", "IndexError"} /\ v0 = <<>>) =>
              v0' = <<AutoV0(vel')>> ]_vars

\* the normalising cell has run on a table whose own reference velocity
\* differs from the v0 it found and kept
C17_Witness ==
    /\ cell = "normalise" /\ err = "none"
    /\ v0 # <<>>
    /\ v0[1] \notin SuppliedV0
    /\ v0[1] # AutoV0(vel)
    /\ Vvalues = DivAll(vel, v0[1])

\* the alpha, the beta and the V0 of a section
Own(section) ==
    CASE section = "1" -> <<alpha_1, beta_1, v0[1]>>
      [] section = "2" -> <<alpha_2, beta_2, v0_calc>>
      [] section = "3" -> <<alpha_fit, beta_fit, v0_fit>>

\* the mass m is the product of the three factors of the final-mass formula
\* for the parameters a, the fit <<alpha, beta, V0>> and the last retained
\* velocity
ThreeFactors(m, a, fit) ==
    /\ m.geometry = <<a.cd, a.A, fit[1], a.rho>>
    /\ m.exponential = <<fit[2], a.mu>>
    /\ m.velocity = <<Div(Last(vel), fit[3])>>

\* the masses the mass cells of Sections 1.3, 2.3, 3.2 and 4 show
MassPlotsComplete ==
    cell \in MassCells =>
        \A i \in 1..Len(mass.shown) :
           ThreeFactors(mass.shown[i], mass.arguments, Own(mass.shown[i].section))

\* C15: every final mass shown for a fit variant is the product of the three
\* factors, with the alpha and beta of that variant and the last retained
\* velocity over the V0 of that variant: in the mass plots, and in the
\* manual fit of Section 3.1.
C15_AllThreeFactors ==
    /\ MassPlotsComplete
    /\ (cell = "manual" /\ err = "none") =>
          ThreeFactors(fitres.me_txt, Defaults, <<fitres.alpha, fitres.beta, fitres.V0>>)

====
